---- MODULE Spec2Model ----
(***************************************************************************)
(* Model of the research-assistant pipeline: backend.py and its HTTP API   *)
(* (flask_api_server.py) and the two interactive scripts v4.py and v5.py.  *)
(* Strings are sequences of one-character strings, so that splitting,      *)
(* filtering, trimming and joining are computed as the code computes them. *)
(***************************************************************************)
EXTENDS Integers, Sequences, FiniteSets, TLC

VARIABLES
    \* ---- one request through a front-end ----
    variant,      \* "api" (flask_api_server.py + backend.py), "v4", "v5"
    apiKey,       \* TRUE iff OPENROUTER_API_KEY is set (truthy)
    endpoint,     \* "research" | "keywords" (api only); "ui" for v4/v5
    pc,           \* position of the request's thread of control
    body,         \* the request body / text input
    query,        \* the query the pipeline runs with
    keywords,     \* result of extract_keywords
    results,      \* list returned by search_openalex
    context,      \* context block built by summarize_with_llm
    response,     \* what the front-end answers
    events,       \* outbound-call history of the current request
    searchTerm,   \* the "search" parameter of the request sent to the search service
    \* ---- convert_abstract applied to one input ----
    absIndex,     \* abstract_inverted_index: NoIndex or a list of <<word, positions>>
    wordLimit,    \* word_limit
    absOut,       \* per variant: result of convert_abstract
    \* ---- extract_keywords applied to one completion text ----
    kwRaw,        \* text returned by llama_completion_via_openrouter
    kwOut         \* result of extract_keywords

vars == <<variant, apiKey, endpoint, pc, body, query, keywords, results,
          context, response, events, searchTerm, absIndex, wordLimit, absOut, kwRaw, kwOut>>

pipeVars == <<variant, apiKey, endpoint, pc, body, query, keywords, results,
              context, response, events, searchTerm>>
absVars == <<absIndex, wordLimit, absOut>>
kwVars == <<kwRaw, kwOut>>

(***************************************************************************)
(* Bounds of the model                                                     *)
(***************************************************************************)
MaxRawLen == 4       \* longest completion text drawn for extract_keywords
MaxListLen == 2      \* longest position list in a drawn inverted index
MaxPos == 2          \* largest position in a drawn inverted index
MaxWordLimit == 3    \* largest word_limit drawn for convert_abstract
MaxResults == 6      \* most records the search service answers with

(***************************************************************************)
(* Characters and strings                                                  *)
(***************************************************************************)
Range(s) == {s[i] : i \in 1..Len(s)}

Min2(a, b) == IF a < b THEN a ELSE b

Lower == {"a","b","c","d","e","f","g","h","i","j","k","l","m",
          "n","o","p","q","r","s","t","u","v","w","x","y","z"}
Upper == {"A","B","C","D","E","F","G","H","I","J","K","L","M",
          "N","O","P","Q","R","S","T","U","V","W","X","Y","Z"}
Digits == {"0","1","2","3","4","5","6","7","8","9"}

\* The one-character string U+274C that starts the completion error strings.
CrossMark == "U+274C"

\* The one-character string U+00E9, a letter outside a-z and A-Z.
EAcute == "U+00E9"

\* Characters str.strip() and str.split() treat as whitespace.
Whitespace == {" ", "\t", "\n", "\r"}

\* The complement of the character class [^a-zA-Z0-9,\- ].
Allowed == Lower \cup Upper \cup Digits \cup {",", "-", " "}

\* Code points of the characters that occur in the words of the drawn indexes.
CodePoint(c) ==
    CASE c = "a" -> 97 [] c = "b" -> 98 [] c = "c" -> 99 [] c = "d" -> 100
      [] OTHER -> 0

\* Python's < on str: lexicographic by code point, a proper prefix is smaller.
RECURSIVE StrLess(_, _)
StrLess(s, t) ==
    IF t = <<>> THEN FALSE
    ELSE IF s = <<>> THEN TRUE
    ELSE IF CodePoint(Head(s)) # CodePoint(Head(t))
         THEN CodePoint(Head(s)) < CodePoint(Head(t))
    ELSE StrLess(Tail(s), Tail(t))

\* sep.join(parts)
RECURSIVE Join(_, _)
Join(parts, sep) ==
    IF parts = <<>> THEN <<>>
    ELSE IF Len(parts) = 1 THEN parts[1]
    ELSE parts[1] \o sep \o Join(Tail(parts), sep)

\* s.split("\n"): the pieces between newlines, empty pieces kept.
RECURSIVE SplitNewline(_)
SplitNewline(s) ==
    IF \A i \in 1..Len(s) : s[i] # "\n" THEN <<s>>
    ELSE LET k == CHOOSE i \in 1..Len(s) :
                      s[i] = "\n" /\ \A j \in 1..(i-1) : s[j] # "\n"
         IN <<SubSeq(s, 1, k-1)>> \o SplitNewline(SubSeq(s, k+1, Len(s)))

\* s.split(): the maximal runs of non-whitespace characters.
RECURSIVE SplitWhitespace(_)
SplitWhitespace(s) ==
    IF s = <<>> THEN <<>>
    ELSE IF Head(s) \in Whitespace THEN SplitWhitespace(Tail(s))
    ELSE LET stops == {i \in 1..Len(s) : s[i] \in Whitespace}
             k == IF stops = {} THEN Len(s) + 1
                  ELSE CHOOSE i \in stops : \A j \in stops : i <= j
         IN <<SubSeq(s, 1, k-1)>> \o SplitWhitespace(SubSeq(s, k, Len(s)))

\* s.strip()
RECURSIVE LStrip(_)
LStrip(s) ==
    IF s # <<>> /\ Head(s) \in Whitespace THEN LStrip(Tail(s)) ELSE s
RECURSIVE RStrip(_)
RStrip(s) ==
    IF s # <<>> /\ s[Len(s)] \in Whitespace
    THEN RStrip(SubSeq(s, 1, Len(s)-1)) ELSE s
Strip(s) == RStrip(LStrip(s))

(***************************************************************************)
(* backend.extract_keywords (identical in v4.py and v5.py), from the text  *)
(* the completion call returned                                            *)
(***************************************************************************)
IsAllowed(c) == c \in Allowed

\* re.sub(r"[^a-zA-Z0-9,\- ]+", "", line)
ReSub(line) == SelectSeq(line, IsAllowed)

\* raw_output.split("\n")[0]
\* (faulty variant: the last line instead of the first)
FirstLine_Last(raw) == SplitNewline(raw)[Len(SplitNewline(raw))]
FirstLine(raw) == SplitNewline(raw)[1]

KeywordsOf(raw) == Strip(ReSub(FirstLine(raw)))

(***************************************************************************)
(* convert_abstract: backend.py, and the copies in v4.py and v5.py         *)
(***************************************************************************)
Variants == {"api", "v4", "v5"}

\* The words of the drawn inverted indexes.
Words == {<<"a">>, <<"b", "c">>}

Space == <<" ">>
Ellipsis == <<".", ".", ".">>

\* A returned string, or the exception the call ended with.
Returned(text) == [raised |-> FALSE, text |-> text]
Raised == [raised |-> TRUE, text |-> <<>>]

\* abstract_inverted_index: None, or a dict as the list of its items in
\* iteration order.
NoIndex == [isNone |-> TRUE, items |-> <<>>]
Dict(items) == [isNone |-> FALSE, items |-> items]

\* for word, positions in index.items(): for pos in positions: append((pos, word))
RECURSIVE PairsOfItem(_, _)
PairsOfItem(word, positions) ==
    IF positions = <<>> THEN <<>>
    ELSE <<(<<Head(positions), word>>)>> \o PairsOfItem(word, Tail(positions))
RECURSIVE PosWordPairs(_)
PosWordPairs(items) ==
    IF items = <<>> THEN <<>>
    ELSE PairsOfItem(items[1][1], items[1][2]) \o PosWordPairs(Tail(items))

\* Python's < on the tuples (pos, word).
PairLess(p, q) == p[1] < q[1] \/ (p[1] = q[1] /\ StrLess(p[2], q[2]))

\* pos_word_pairs.sort()
RECURSIVE InsertPair(_, _)
InsertPair(p, sorted) ==
    IF sorted = <<>> THEN <<p>>
    ELSE IF PairLess(p, Head(sorted)) THEN <<p>> \o sorted
    ELSE <<Head(sorted)>> \o InsertPair(p, Tail(sorted))
RECURSIVE SortPairs(_)
\* (faulty variant: the pairs are left in iteration order)
SortPairs_Unsorted(pairs) == pairs
SortPairs(pairs) ==
    IF pairs = <<>> THEN <<>>
    ELSE InsertPair(pairs[Len(pairs)], SortPairs(SubSeq(pairs, 1, Len(pairs)-1)))

\* seq[:n] for n >= 0
Take(seq, n) == SubSeq(seq, 1, Min2(n, Len(seq)))

\* (faulty variant: the ellipsis of v4.py and v5.py, appended always)
ConvertAbstract_AlwaysEllipsis(index, word_limit) ==
    IF index.isNone \/ index.items = <<>> THEN Returned(<<>>)
    ELSE LET sorted == SortPairs(PosWordPairs(index.items))
             words == [i \in 1..Len(sorted) |-> sorted[i][2]]
         IN Returned(Join(Take(words, word_limit), Space) \o Ellipsis)
\* backend.convert_abstract
ConvertAbstract(index, word_limit) ==
    IF index.isNone \/ index.items = <<>> THEN Returned(<<>>)
    ELSE LET sorted == SortPairs(PosWordPairs(index.items))
             words == [i \in 1..Len(sorted) |-> sorted[i][2]]
             truncated == Join(Take(words, word_limit), Space)
         IN Returned(IF Len(words) > word_limit
                     THEN truncated \o Ellipsis ELSE truncated)

\* min(positions), for a non-empty list
MinOf(positions) ==
    CHOOSE m \in Range(positions) : \A x \in Range(positions) : m <= x

\* sorted(index.items(), key=lambda x: min(x[1])): stable, so an item goes
\* behind the items already placed whose key is not larger.
RECURSIVE InsertByMin(_, _)
InsertByMin(item, sorted) ==
    IF sorted = <<>> THEN <<item>>
    ELSE IF MinOf(item[2]) < MinOf(sorted[Len(sorted)][2])
         THEN InsertByMin(item, SubSeq(sorted, 1, Len(sorted)-1))
              \o <<sorted[Len(sorted)]>>
    ELSE sorted \o <<item>>
RECURSIVE SortByMin(_)
SortByMin(items) ==
    IF items = <<>> THEN <<>>
    ELSE InsertByMin(items[Len(items)], SortByMin(SubSeq(items, 1, Len(items)-1)))

\* v4.convert_abstract; min() of an empty position list raises ValueError.
ConvertAbstractV4(index, word_limit) ==
    IF index.isNone \/ index.items = <<>> THEN Returned(<<>>)
    ELSE IF \E i \in 1..Len(index.items) : index.items[i][2] = <<>> THEN Raised
    ELSE LET words == SortByMin(index.items)
             flat == Join([i \in 1..Len(words) |-> words[i][1]], Space)
             truncated == Join(Take(SplitWhitespace(flat), word_limit), Space)
         IN Returned(truncated \o Ellipsis)

\* v5.convert_abstract
ConvertAbstractV5(index, word_limit) ==
    IF index.isNone \/ index.items = <<>> THEN Returned(<<>>)
    ELSE IF \E i \in 1..Len(index.items) : index.items[i][2] = <<>> THEN Raised
    ELSE LET words == SortByMin(index.items)
             flat == Join([i \in 1..Len(words) |-> words[i][1]], Space)
         IN Returned(Join(Take(SplitWhitespace(flat), word_limit), Space)
                     \o Ellipsis)

ConvertAbstractOf(v, index, word_limit) ==
    CASE v = "api" -> ConvertAbstract(index, word_limit)
      [] v = "v4" -> ConvertAbstractV4(index, word_limit)
      [] v = "v5" -> ConvertAbstractV5(index, word_limit)

(***************************************************************************)
(* The pipeline: texts, service outcomes and the values that flow through  *)
(***************************************************************************)
\* "<U+274C> Missing OpenRouter API Key"
MissingKeyMsg ==
    <<CrossMark," ","M","i","s","s","i","n","g"," ","O","p","e","n","R","o",
      "u","t","e","r"," ","A","P","I"," ","K","e","y">>

\* f"<U+274C> OpenRouter LLaMA error: {e}", for the exception text "401"
LlamaErrorMsg ==
    <<CrossMark," ","O","p","e","n","R","o","u","t","e","r"," ","L","L","a",
      "M","A"," ","e","r","r","o","r",":"," ","4","0","1">>

\* the summary of the empty-result response
NoResultsMsg ==
    <<"N","o"," ","r","e","l","e","v","a","n","t"," ","p","a","p","e","r",
      "s"," ","f","o","u","n","d"," ","f","o","r"," ","y","o","u","r"," ",
      "q","u","e","r","y","."," ","T","r","y"," ","d","i","f","f","e","r",
      "e","n","t"," ","k","e","y","w","o","r","d","s",".">>

\* len(query) < 5 is rejected (research_query)
MinQueryLen == 5
\* papers[:5] go to the summary (research_query)
SummaryTop == 5
\* word_limit of the abstracts in the context block (summarize_with_llm)
SummaryWordLimit == 80
\* word_limit of the abstracts in the response (research_query)
ResponseWordLimit == 100
\* default word_limit, used for the works the interactive scripts list
DefaultWordLimit == 60

\* The value under "query" of a JSON object body.
Missing == [kind |-> "missing", text |-> <<>>]
Null == [kind |-> "null", text |-> <<>>]
Number == [kind |-> "number", text |-> <<>>]
Str(text) == [kind |-> "string", text |-> text]

QueryTexts ==
    { <<>>,
      <<" ", " ", " ">>,
      <<"a", "b", "c">>,
      <<" ", "a", "b", "c", "d", "\n">>,
      <<"a", " ", "b", " ", " ", " ">>,
      <<"a", "b", "c", "d", "e">>,
      <<" ", "g", "r", "a", "p", "h", "s", " ">> }

\* request.get_json(): a JSON object, or a JSON value that is no object.
Object(q) == [kind |-> "object", query |-> q]
NotAnObject == [kind |-> "other", query |-> Missing]
\* st.text_input(...): always a string.
TextInput(text) == [kind |-> "text_input", query |-> Str(text)]

Bodies(v) ==
    IF v = "api"
    THEN {NotAnObject} \cup {Object(q) : q \in {Missing, Null, Number}}
         \cup {Object(Str(t)) : t \in QueryTexts}
    ELSE {TextInput(t) : t \in QueryTexts}

Endpoints(v) == IF v = "api" THEN {"research", "keywords"} ELSE {"ui"}

\* What the completion service can answer: a content string, or a failure
\* of the request (network error, non-2xx status, malformed JSON).
Failure == [ok |-> FALSE, content |-> <<>>]
Content(text) == [ok |-> TRUE, content |-> text]
CompletionOutcomes ==
    { Failure,
      Content(<<" ", "m", "l", ",", " ", "a", "-", "i", "\n", "n", "o", "t", "e", " ">>),
      Content(<<"!", "?">>) }

\* A work record of the search service.
Doc(i) ==
    [display_name |-> i,
     abstract_inverted_index |->
        IF i % 2 = 0 THEN NoIndex
        ELSE Dict(<< <<(<<"b", "c">>), <<1>> >>, <<(<<"a">>), <<2, 0>> >> >>)]

\* What the search service can answer: status 200 with a results array (in
\* either order of the records), another status, or a failed request.
SearchOk(list) == [kind |-> "ok", status |-> 200, results |-> list]
SearchStatus(code) == [kind |-> "status", status |-> code, results |-> <<>>]
SearchFailed == [kind |-> "failed", status |-> 0, results |-> <<>>]
SearchOutcomes ==
    {SearchOk([i \in 1..k |-> Doc(i)]) : k \in 0..MaxResults}
    \cup {SearchOk([i \in 1..k |-> Doc(k + 1 - i)]) : k \in 2..MaxResults}
    \cup {SearchStatus(503), SearchFailed}

\* An entry of the outbound-call history.
Ev(op, what) == <<op, what>>

(***************************************************************************)
(* backend.py / v4.py / v5.py: the four steps                              *)
(***************************************************************************)
\* llama_completion_via_openrouter: TRUE iff the call goes out to the
\* service. Only backend.py returns early on a missing key.
SendsCompletion(v, key) == ~(v = "api" /\ ~key)

\* (faulty variant: a failed request gives the empty string)
CompletionResult_EmptyOnFailure(outcome) ==
    IF outcome.ok THEN Strip(outcome.content) ELSE <<>>
\* llama_completion_via_openrouter: the string returned once the request ended
CompletionResult(outcome) ==
    IF outcome.ok THEN Strip(outcome.content) ELSE LlamaErrorMsg

\* (faulty variant: a non-200 status gives an empty list in every front-end)
SearchOpenalex_EmptyOnError(v, outcome) ==
    CASE outcome.kind = "ok" -> [raised |-> FALSE, list |-> outcome.results]
      [] outcome.kind = "status" -> [raised |-> FALSE, list |-> <<>>]
      [] outcome.kind = "failed" -> [raised |-> TRUE, list |-> <<>>]
\* search_openalex: the list returned, or the exception raised
SearchOpenalex(v, outcome) ==
    CASE outcome.kind = "ok" -> [raised |-> FALSE, list |-> outcome.results]
      [] outcome.kind = "status" ->
            IF v = "api" THEN [raised |-> TRUE, list |-> <<>>]
            ELSE [raised |-> FALSE, list |-> <<>>]
      [] outcome.kind = "failed" -> [raised |-> TRUE, list |-> <<>>]

\* The docs the front-end hands to summarize_with_llm.
SummaryDocs(v, papers) ==
    IF v = "api" THEN Take(papers, SummaryTop) ELSE papers

\* summarize_with_llm: the context block, one entry per doc
ContextOf(v, docs) ==
    [i \in 1..Len(docs) |->
        [idx |-> i,
         title |-> docs[i].display_name,
         abstract |-> ConvertAbstractOf(v, docs[i].abstract_inverted_index,
                                        SummaryWordLimit).text]]

\* research_query: processed_papers
ProcessedPapers(papers) ==
    [i \in 1..Len(papers) |->
        [title |-> papers[i].display_name,
         abstract |-> ConvertAbstract(papers[i].abstract_inverted_index,
                                      ResponseWordLimit).text]]

(***************************************************************************)
(* Answers of the front-ends                                               *)
(***************************************************************************)
NoResponse ==
    [kind |-> "none", status |-> 0, error |-> "", query |-> <<>>,
     keywords |-> <<>>, papers |-> <<>>, summary |-> <<>>, total_results |-> 0]

\* jsonify({'error': ...}), status
ErrorResponse(status, msg) ==
    [NoResponse EXCEPT !.kind = "error", !.status = status, !.error = msg]

\* jsonify({'query', 'keywords', 'papers', 'summary', 'total_results'})
ResearchResponse(q, kw, papers, summary) ==
    [kind |-> "research", status |-> 200, error |-> "", query |-> q,
     keywords |-> kw, papers |-> papers, summary |-> summary,
     total_results |-> Len(papers)]

\* jsonify({'keywords': keywords})
KeywordsResponse(kw) ==
    [NoResponse EXCEPT !.kind = "keywords", !.status = 200, !.keywords = kw]

\* research_query: the answer when the search found nothing
EmptyResultResponse(q, kw) ==
    [kind |-> "research", status |-> 200, error |-> "", query |-> q,
     keywords |-> kw, papers |-> <<>>, summary |-> NoResultsMsg,
     total_results |-> 0]

\* What the interactive scripts show: the summary and the works, the
\* "No results found" warning, the caught error (v5), or the uncaught
\* exception (v4).
UiSummary(summary, items) ==
    [NoResponse EXCEPT !.kind = "ui_summary", !.summary = summary,
                       !.papers = items, !.total_results = Len(items)]
UiWarning(msg) == [NoResponse EXCEPT !.kind = "ui_warning", !.error = msg]
UiError == [NoResponse EXCEPT !.kind = "ui_error", !.error = "An error occurred"]
UiException == [NoResponse EXCEPT !.kind = "ui_exception"]

(***************************************************************************)
(* One request, step by step                                               *)
(***************************************************************************)
Set(pc_, q, kw, res, ctx, resp, evs) ==
    /\ pc' = pc_
    /\ query' = q
    /\ keywords' = kw
    /\ results' = res
    /\ context' = ctx
    /\ response' = resp
    /\ events' = evs

\* (faulty variant: the length check left out)
Validate_NoLengthCheck(ep, q) ==
    IF q = <<>> THEN "required" ELSE "ok"
\* A step of a request for which no search request has gone out.
SetNoSearch(pc_, q, kw, res, ctx, resp, evs) ==
    /\ Set(pc_, q, kw, res, ctx, resp, evs)
    /\ searchTerm' = <<>>

\* research_query / extract_keywords_only: the checks on the trimmed query
Validate(ep, q) ==
    IF q = <<>> THEN "required"
    ELSE IF ep = "research" /\ Len(q) < MinQueryLen THEN "short"
    ELSE "ok"

\* (faulty variant: the empty result is not short-circuited)
NoPapers_Never(papers) == FALSE
\* research_query: `if not papers:`
NoPapers(papers) == papers = <<>>

\* What follows extract_keywords: the /api/keywords answer, or the call of
\* search_openalex, whose GET goes out.
AfterKeywords(ep, q, kw, evs) ==
    IF ep = "keywords"
    THEN SetNoSearch("done", q, kw, <<>>, <<>>, KeywordsResponse(kw), evs)
    ELSE /\ Set("search_wait", q, kw, <<>>, <<>>, NoResponse,
                evs \o <<Ev("call", "search"), Ev("send", "search")>>)
         /\ searchTerm' = kw

\* The answer once the summary is there.
Success(v, q, kw, papers, summary) ==
    IF v = "api"
    THEN ResearchResponse(q, kw, ProcessedPapers(papers), summary)
    ELSE UiSummary(summary,
            [i \in 1..Len(papers) |->
                [title |-> papers[i].display_name,
                 abstract |-> ConvertAbstractOf(v,
                     papers[i].abstract_inverted_index, DefaultWordLimit).text]])

\* Entry of research_query and extract_keywords_only, up to the first
\* outbound request.
ApiReceiveQuery ==
    /\ variant = "api"
    /\ pc \in {"idle", "done"}
    /\ UNCHANGED <<variant, apiKey, absVars, kwVars>>
    /\ \E ep \in Endpoints("api"), b \in Bodies("api") :
        /\ endpoint' = ep
        /\ body' = b
        /\ IF b.kind = "other" \/ b.query.kind \in {"null", "number"}
           THEN \* data.get / .strip() raises AttributeError: except Exception
                SetNoSearch("done", <<>>, <<>>, <<>>, <<>>,
                    ErrorResponse(500, IF ep = "research" THEN "Research failed"
                                       ELSE "Keyword extraction failed"), <<>>)
           ELSE LET q == Strip(b.query.text)
                    v == Validate(ep, q)
                IN CASE v = "required" ->
                          SetNoSearch("done", q, <<>>, <<>>, <<>>,
                              ErrorResponse(400, "Query is required"), <<>>)
                     [] v = "short" ->
                          SetNoSearch("done", q, <<>>, <<>>, <<>>,
                              ErrorResponse(400, "Query too short"), <<>>)
                     [] v = "ok" ->
                          IF SendsCompletion(variant, apiKey)
                          THEN SetNoSearch("kw_wait", q, <<>>, <<>>, <<>>, NoResponse,
                                   <<Ev("call", "keywords"), Ev("send", "keywords")>>)
                          ELSE AfterKeywords(ep, q, KeywordsOf(MissingKeyMsg),
                                   <<Ev("call", "keywords"), Ev("return", "keywords")>>)

\* v4.py / v5.py: the script runs on a text input; `if query:`.
UiReceiveQuery ==
    /\ variant \in {"v4", "v5"}
    /\ pc \in {"idle", "done"}
    /\ UNCHANGED <<variant, apiKey, absVars, kwVars>>
    /\ \E b \in Bodies(variant) :
        /\ endpoint' = "ui"
        /\ body' = b
        /\ IF b.query.text = <<>>
           THEN SetNoSearch("done", <<>>, <<>>, <<>>, <<>>, NoResponse, <<>>)
           ELSE IF SendsCompletion(variant, apiKey)
           THEN SetNoSearch("kw_wait", b.query.text, <<>>, <<>>, <<>>, NoResponse,
                    <<Ev("call", "keywords"), Ev("send", "keywords")>>)
           ELSE AfterKeywords("ui", b.query.text, KeywordsOf(MissingKeyMsg),
                    <<Ev("call", "keywords"), Ev("return", "keywords")>>)

\* (faulty variant: a failed keyword completion is sent once more)
KeywordCompletionReturns_Retry ==
    /\ pc = "kw_wait"
    /\ UNCHANGED <<variant, apiKey, endpoint, body, absVars, kwVars>>
    /\ \E o \in CompletionOutcomes :
        IF ~o.ok /\ Len(events) < 4
        THEN /\ Set("kw_wait", query, keywords, results, context, response,
                    events \o <<Ev("answer_failed", "keywords"), Ev("send", "keywords")>>)
             /\ searchTerm' = searchTerm
        ELSE AfterKeywords(endpoint, query, KeywordsOf(CompletionResult(o)),
                events \o <<Ev(IF o.ok THEN "answer_ok" ELSE "answer_failed", "keywords"),
                            Ev("return", "keywords")>>)
\* The keyword completion request ends; extract_keywords returns.
KeywordCompletionReturns ==
    /\ pc = "kw_wait"
    /\ UNCHANGED <<variant, apiKey, endpoint, body, absVars, kwVars>>
    /\ \E o \in CompletionOutcomes :
        AfterKeywords(endpoint, query, KeywordsOf(CompletionResult(o)),
            events \o <<Ev(IF o.ok THEN "answer_ok" ELSE "answer_failed", "keywords"),
                        Ev("return", "keywords")>>)

\* The search request ends; the front-end goes on to the summary or answers.
SearchReturns ==
    /\ pc = "search_wait"
    /\ UNCHANGED <<variant, apiKey, endpoint, body, searchTerm, absVars, kwVars>>
    /\ \E o \in SearchOutcomes :
        LET r == SearchOpenalex(variant, o)
            evs == events \o <<Ev(CASE o.kind = "ok" -> "answer_ok"
                                    [] o.kind = "status" -> "answer_status"
                                    [] o.kind = "failed" -> "answer_failed",
                                  "search"),
                               Ev(IF r.raised THEN "raise" ELSE "return", "search")>>
        IN IF r.raised
           THEN Set("done", query, keywords, <<>>, <<>>,
                    CASE variant = "api" -> ErrorResponse(500, "Research failed")
                      [] variant = "v4" -> UiException
                      [] variant = "v5" -> UiError,
                    evs)
           ELSE IF NoPapers(r.list)
           THEN Set("done", query, keywords, r.list, <<>>,
                    CASE variant = "api" -> EmptyResultResponse(query, keywords)
                      [] variant = "v4" ->
                            UiWarning(IF o.kind = "status"
                                      THEN "Error fetching from OpenAlex"
                                      ELSE "No results found")
                      [] variant = "v5" -> UiWarning("No results found"),
                    evs)
           ELSE LET ctx == ContextOf(variant, SummaryDocs(variant, r.list))
                IN IF SendsCompletion(variant, apiKey)
                   THEN Set("sum_wait", query, keywords, r.list, ctx, NoResponse,
                            evs \o <<Ev("call", "summary"), Ev("send", "summary")>>)
                   ELSE Set("done", query, keywords, r.list, ctx,
                            Success(variant, query, keywords, r.list, MissingKeyMsg),
                            evs \o <<Ev("call", "summary"), Ev("return", "summary")>>)

\* The summary completion request ends; the front-end answers.
SummaryCompletionReturns ==
    /\ pc = "sum_wait"
    /\ UNCHANGED <<variant, apiKey, endpoint, body, searchTerm, absVars, kwVars>>
    /\ \E o \in CompletionOutcomes :
        Set("done", query, keywords, results, context,
            Success(variant, query, keywords, results, CompletionResult(o)),
            events \o <<Ev(IF o.ok THEN "answer_ok" ELSE "answer_failed", "summary"),
                        Ev("return", "summary")>>)

(***************************************************************************)
(* Specifications                                                          *)
(***************************************************************************)
Pending == [done |-> FALSE, raised |-> FALSE, text |-> <<>>]
Done(r) == [done |-> TRUE, raised |-> r.raised, text |-> r.text]

PipeIdle ==
    /\ endpoint = "none"
    /\ pc = "idle"
    /\ body = NotAnObject
    /\ query = <<>>
    /\ keywords = <<>>
    /\ results = <<>>
    /\ context = <<>>
    /\ response = NoResponse
    /\ events = <<>>
    /\ searchTerm = <<>>
AbsIdle == absIndex = NoIndex /\ wordLimit = 1 /\ absOut = Pending
KwIdle == kwRaw = <<>> /\ kwOut = Pending

\* A front-end process: the key is read from the environment at start.
Init ==
    /\ variant \in Variants
    /\ apiKey \in BOOLEAN
    /\ PipeIdle /\ AbsIdle /\ KwIdle

Next ==
    \/ ApiReceiveQuery
    \/ UiReceiveQuery
    \/ KeywordCompletionReturns
    \/ SearchReturns
    \/ SummaryCompletionReturns

Spec == Init /\ [][Next]_vars

\* convert_abstract of one front-end applied to one drawn index.
PosLists == UNION {[1..k -> 0..MaxPos] : k \in 0..MaxListLen}
Indexes ==
    {NoIndex, Dict(<<>>)}
    \cup {Dict(<< <<w, ps>> >>) : w \in Words, ps \in PosLists}
    \cup {Dict(<< <<ws[1], ps1>>, <<ws[2], ps2>> >>) :
            ws \in {x \in Words \X Words : x[1] # x[2]},
            ps1 \in PosLists, ps2 \in PosLists}

AbsInit ==
    /\ variant \in Variants
    /\ apiKey = TRUE
    /\ PipeIdle /\ KwIdle
    /\ absIndex \in Indexes
    /\ wordLimit \in 1..MaxWordLimit
    /\ absOut = Pending

ConvertAbstractCall ==
    /\ ~absOut.done
    /\ absOut' = Done(ConvertAbstractOf(variant, absIndex, wordLimit))
    /\ UNCHANGED <<absIndex, wordLimit, pipeVars, kwVars>>

AbsNext == ConvertAbstractCall

SpecAbstract == AbsInit /\ [][AbsNext]_vars

\* extract_keywords applied to one drawn completion text.
RawChars == {"a", "B", "7", ",", "-", " ", "\n", "!", "\t", EAcute}
RawTexts == UNION {[1..k -> RawChars] : k \in 0..MaxRawLen}

KwInit ==
    /\ variant \in Variants
    /\ apiKey = TRUE
    /\ PipeIdle /\ AbsIdle
    /\ kwRaw \in RawTexts
    /\ kwOut = Pending

ExtractKeywordsCall ==
    /\ ~kwOut.done
    /\ kwOut' = Done(Returned(KeywordsOf(kwRaw)))
    /\ UNCHANGED <<kwRaw, pipeVars, absVars>>

KwNext == ExtractKeywordsCall

SpecKeywords == KwInit /\ [][KwNext]_vars

(***************************************************************************)
(* Vocabulary of the properties                                            *)
(***************************************************************************)
\* s without its leading and trailing whitespace: the stretch from the
\* first to the last character that is no whitespace.
Trimmed(s) ==
    LET solid == {i \in 1..Len(s) : s[i] \notin Whitespace}
    IN IF solid = {} THEN <<>>
       ELSE SubSeq(s, CHOOSE i \in solid : \A j \in solid : i <= j,
                      CHOOSE i \in solid : \A j \in solid : j <= i)

\* The places of an entry in the outbound-call history.
Places(op, what) == {i \in 1..Len(events) : events[i] = Ev(op, what)}
Happened(op, what) == Places(op, what) # {}

Completions == {"keywords", "summary"}
Outbound == {"keywords", "search", "summary"}

\* /api/research has answered the current request.
ResearchAnswered ==
    variant = "api" /\ endpoint = "research" /\ pc = "done"

(***************************************************************************)
(* C1: POST /api/research with a JSON object body whose trimmed query is   *)
(* missing, empty or shorter than 5 characters is answered with status 400 *)
(* and an error body, and no outbound call (keyword completion, search,    *)
(* summary completion) has been made when it answers.                      *)
(***************************************************************************)
C1_ShortQuery ==
    /\ body.kind = "object"
    /\ body.query.kind \in {"missing", "string"}
    /\ Len(Trimmed(body.query.text)) < 5

C1_ShortQueryRejected ==
    (ResearchAnswered /\ C1_ShortQuery)
        => /\ response.kind = "error"
           /\ response.status = 400
           /\ response.error # ""
           /\ events = <<>>

\* a query of one to four characters once trimmed, with whitespace around
\* it in the body, has been answered
C1_Witness ==
    /\ ResearchAnswered /\ C1_ShortQuery
    /\ body.query.kind = "string"
    /\ Len(Trimmed(body.query.text)) \in 1..4
    /\ Len(body.query.text) >= 5
    /\ response.status = 400

(***************************************************************************)
(* C2: when the search of a valid /api/research request returns zero       *)
(* records, the answer is a success with no papers, total_results 0 and    *)
(* the canned no-results summary; the completion has been called exactly   *)
(* once, for the keywords, and never for the summary.                      *)
(***************************************************************************)
C2_SearchFoundNothing ==
    ResearchAnswered /\ Happened("return", "search") /\ results = <<>>

C2_EmptyResultShortCircuit ==
    C2_SearchFoundNothing
        => /\ response.kind = "research"
           /\ response.status = 200
           /\ response.papers = <<>>
           /\ response.total_results = 0
           /\ response.summary = NoResultsMsg
           /\ Cardinality(Places("call", "keywords")) = 1
           /\ Cardinality(Places("send", "keywords")) <= 1
           /\ \A op \in {"call", "send", "return"} : ~Happened(op, "summary")

\* the search answered 200 with an empty list after the service had
\* produced the keywords
C2_Witness ==
    /\ C2_SearchFoundNothing
    /\ Happened("answer_ok", "search")
    /\ Happened("answer_ok", "keywords")
    /\ response.summary = NoResultsMsg

(***************************************************************************)
(* C3: within one request the outbound calls go keyword completion, then   *)
(* search, then summary completion, each at most once: the search is not   *)
(* called before the keyword completion has returned, the summary not      *)
(* before the search has returned, and nothing is sent a second time after *)
(* a failure.                                                              *)
(***************************************************************************)
C3_SequentialSingleAttempt ==
    /\ \A what \in Outbound :
          /\ Cardinality(Places("call", what)) <= 1
          /\ Cardinality(Places("send", what)) <= 1
    /\ \A i \in Places("call", "search") :
          \E j \in Places("return", "keywords") : j < i
    /\ \A i \in Places("call", "summary") :
          \E j \in Places("return", "search") : j < i
    /\ \A i \in 1..Len(events) :
          events[i][1] = "raise" => i = Len(events)
    /\ \A what \in Outbound :
          \A i \in Places("answer_failed", what) \cup Places("answer_status", what) :
             \A j \in Places("send", what) : j < i

\* a request that went through all three calls after the keyword
\* completion had failed
C3_Witness ==
    /\ pc = "done"
    /\ Happened("answer_failed", "keywords")
    /\ Happened("return", "search")
    /\ Happened("return", "summary")

(***************************************************************************)
(* C7: when the search of a valid /api/research request ends with a        *)
(* non-success status, or fails, search_openalex raises and returns no     *)
(* list; the handler answers 500 with an error body, returns no papers,    *)
(* and never calls the summary completion.                                 *)
(***************************************************************************)
C7_SearchWentWrong ==
    ResearchAnswered
    /\ (Happened("answer_status", "search") \/ Happened("answer_failed", "search"))

C7_SearchFailureIs500 ==
    C7_SearchWentWrong
        => /\ Happened("raise", "search")
           /\ ~Happened("return", "search")
           /\ response.kind = "error"
           /\ response.status = 500
           /\ response.error # ""
           /\ response.papers = <<>>
           /\ results = <<>>
           /\ \A op \in {"call", "send", "return"} : ~Happened(op, "summary")

\* the search service answered with a non-success status
C7_Witness ==
    /\ C7_SearchWentWrong
    /\ Happened("answer_status", "search")
    /\ response.status = 500

(***************************************************************************)
(* C8: with the credential absent every completion call returns the error  *)
(* string as its result, never raises, and sends no request to the         *)
(* completion service.                                                     *)
(***************************************************************************)
C8_NoKeyNoRequest ==
    ~apiKey
        => /\ \A what \in Completions :
                 ~Happened("send", what) /\ ~Happened("raise", what)
           /\ Happened("return", "keywords")
                 => keywords = Trimmed(SelectSeq(MissingKeyMsg, IsAllowed))
           /\ (pc = "done" /\ Happened("return", "summary"))
                 => response.summary = MissingKeyMsg

(***************************************************************************)
(* C9: in every front-end the context block sent to the summary completion *)
(* holds at most 5 records, which are a prefix of the search result in the *)
(* order returned, numbered 1, 2, ... consecutively.                       *)
(***************************************************************************)
C9_ContextIsTopFive ==
    /\ Len(context) <= 5
    /\ Len(context) <= Len(results)
    /\ \A i \in 1..Len(context) :
          /\ context[i].idx = i
          /\ i <= Len(results) => context[i].title = results[i].display_name

(***************************************************************************)
(* Vocabulary of the properties of convert_abstract                        *)
(***************************************************************************)
\* The occurrences of an index: <<i, j>> is the j-th position of item i.
Occurrences(index) ==
    {o \in (1..Len(index.items)) \X (1..MaxListLen) :
        o[2] <= Len(index.items[o[1]][2])}
WordOf(index, o) == index.items[o[1]][1]
PosOf(index, o) == index.items[o[1]][2][o[2]]
Total(index) == Cardinality(Occurrences(index))

\* The positions of all words together are exactly 0..n-1, each used once.
WellFormed(index) ==
    \A p \in 0..MaxPos :
        Cardinality({o \in Occurrences(index) : PosOf(index, o) = p})
            = IF p < Total(index) THEN 1 ELSE 0

\* The token sequence a well-formed index was built from.
Original(index) ==
    [k \in 1..Total(index) |->
        WordOf(index, CHOOSE o \in Occurrences(index) : PosOf(index, o) = k - 1)]

\* The k-th word in ascending order of position (words at the same position
\* in the order of the words), by counting the occurrences that come before.
Key(index, o) == <<PosOf(index, o), WordOf(index, o)>>
WordAtRank(index, k) ==
    WordOf(index,
        CHOOSE o \in Occurrences(index) :
            /\ Cardinality({x \in Occurrences(index) :
                    PairLess(Key(index, x), Key(index, o))}) < k
            /\ k <= Cardinality({x \in Occurrences(index) :
                    ~PairLess(Key(index, o), Key(index, x))}))
PositionOrdered(index, m) == [k \in 1..m |-> WordAtRank(index, k)]

EndsWithEllipsis(text) ==
    Len(text) >= 3 /\ SubSeq(text, Len(text) - 2, Len(text)) = Ellipsis
WithoutEllipsis(text) ==
    IF EndsWithEllipsis(text) THEN SubSeq(text, 1, Len(text) - 3) ELSE text

BackendConverted == variant = "api" /\ absOut.done

(***************************************************************************)
(* C4: for every well-formed inverted index of n words,                    *)
(* backend.convert_abstract with word_limit >= n returns the original      *)
(* tokens in their original order joined by single spaces, whatever the    *)
(* iteration order of the mapping and the order inside the position lists. *)
(***************************************************************************)
C4_RoundTrip ==
    (BackendConverted /\ WellFormed(absIndex) /\ wordLimit >= Total(absIndex))
        => /\ ~absOut.raised
           /\ absOut.text = Join(Original(absIndex), Space)

\* three tokens with a repeated word, the mapping iterated from a word that
\* is not the first token, a position list in descending order
C4_Witness ==
    /\ BackendConverted /\ WellFormed(absIndex)
    /\ Total(absIndex) = 3 /\ wordLimit >= 3
    /\ Len(absIndex.items) = 2
    /\ absIndex.items[1][2] = <<1>>
    /\ absIndex.items[2][2] = <<2, 0>>
    /\ ~EndsWithEllipsis(absOut.text)

(***************************************************************************)
(* C5: for every index of n word occurrences and every positive            *)
(* word_limit, backend.convert_abstract returns the first                  *)
(* min(n, word_limit) words in position order, followed by "..." exactly   *)
(* when n > word_limit; a null or empty index gives the empty string.      *)
(***************************************************************************)
C5_TruncationAndEllipsis ==
    BackendConverted
        => LET n == IF absIndex.isNone THEN 0 ELSE Total(absIndex)
               m == IF n < wordLimit THEN n ELSE wordLimit
           IN /\ ~absOut.raised
              /\ absOut.text =
                    Join(PositionOrdered(absIndex, m), Space)
                    \o (IF n > wordLimit THEN Ellipsis ELSE <<>>)
              /\ (absIndex.isNone \/ absIndex.items = <<>>) => absOut.text = <<>>

\* word_limit 2 on a well-formed abstract of three words
C5_Witness ==
    /\ BackendConverted /\ WellFormed(absIndex)
    /\ Total(absIndex) = 3 /\ wordLimit = 2
    /\ EndsWithEllipsis(absOut.text)
    /\ Len(SplitWhitespace(WithoutEllipsis(absOut.text))) = 2

(***************************************************************************)
(* C10: v4.convert_abstract and v5.convert_abstract reconstruct the token  *)
(* order of every well-formed inverted index, repeated words included: one *)
(* word per occurrence in ascending position, so that apart from the       *)
(* trailing ellipsis the result equals backend.convert_abstract's for the  *)
(* same index and word_limit.                                              *)
(***************************************************************************)
C10_UiMatchesBackend ==
    (/\ variant \in {"v4", "v5"} /\ absOut.done
     /\ WellFormed(absIndex)
     /\ \A i \in 1..Len(absIndex.items) : absIndex.items[i][2] # <<>>)
        => /\ ~absOut.raised
           /\ WithoutEllipsis(absOut.text)
                = WithoutEllipsis(ConvertAbstract(absIndex, wordLimit).text)

(***************************************************************************)
(* C6: for every text the completion returned, extract_keywords returns    *)
(* the first line of it (what precedes the first newline) without the      *)
(* characters that are no letter, digit, comma, hyphen or space, and       *)
(* without leading or trailing whitespace; so only such characters remain. *)
(* Letters and digits are those of the character class: a-z, A-Z, 0-9.     *)
(***************************************************************************)
C6_Kept(c) == c \in Lower \cup Upper \cup Digits \cup {",", "-", " "}

C6_FirstLineOf(raw) ==
    LET breaks == {i \in 1..Len(raw) : raw[i] = "\n"}
    IN IF breaks = {} THEN raw
       ELSE SubSeq(raw, 1, (CHOOSE i \in breaks : \A j \in breaks : i <= j) - 1)

C6_KeywordsSanitized ==
    kwOut.done
        => /\ ~kwOut.raised
           /\ kwOut.text = Trimmed(SelectSeq(C6_FirstLineOf(kwRaw), C6_Kept))
           /\ \A i \in 1..Len(kwOut.text) : C6_Kept(kwOut.text[i])
           /\ kwOut.text # <<>>
                => kwOut.text[1] # " " /\ kwOut.text[Len(kwOut.text)] # " "

\* a text of two lines whose first line has a character to remove and a
\* space to trim
C6_Witness ==
    /\ kwOut.done
    /\ Len(kwRaw) = 4
    /\ kwRaw[1] = " " /\ kwRaw[2] = "!" /\ kwRaw[3] \in {"a", "-"} /\ kwRaw[4] = "\n"
    /\ Len(kwOut.text) = 1

(***************************************************************************)
(* C11: POST /api/keywords rejects an empty or too-short query (fewer than *)
(* 5 characters once trimmed) with a 4xx error answer before any call of   *)
(* the completion service, as POST /api/research does.                     *)
(***************************************************************************)
C11_KeywordsShortQueryRejected ==
    (variant = "api" /\ endpoint = "keywords" /\ C1_ShortQuery)
        => /\ events = <<>>
           /\ pc = "done"
                => /\ response.kind = "error"
                   /\ response.status \in 400..499

(***************************************************************************)
(* C12: when the keyword completion fails, or the credential is missing,   *)
(* /api/research does not stop or answer an error at that step: the error  *)
(* string, first line and sanitized, becomes the keywords, the search is   *)
(* still sent with that string as its search term, and the answer reports  *)
(* the same string as keywords.                                            *)
(***************************************************************************)
\* "<U+274C> Missing OpenRouter API Key", sanitized
C12_MissingKeyKeywords ==
    <<"M","i","s","s","i","n","g"," ","O","p","e","n","R","o","u","t","e",
      "r"," ","A","P","I"," ","K","e","y">>

\* "<U+274C> OpenRouter LLaMA error: 401", sanitized
C12_FailureKeywords ==
    <<"O","p","e","n","R","o","u","t","e","r"," ","L","L","a","M","A"," ",
      "e","r","r","o","r"," ","4","0","1">>

C12_KeywordStepFailed ==
    /\ variant = "api" /\ endpoint = "research"
    /\ Happened("return", "keywords")
    /\ ~apiKey \/ Happened("answer_failed", "keywords")

C12_ErrorStringBecomesKeywords ==
    C12_KeywordStepFailed
        => LET expected == IF apiKey THEN C12_FailureKeywords
                           ELSE C12_MissingKeyKeywords
           IN /\ keywords = expected
              /\ Happened("send", "search")
              /\ searchTerm = expected
              /\ \A i \in Places("send", "search") :
                    \E j \in Places("return", "keywords") : j < i
              /\ (pc = "done" /\ response.kind = "research")
                    => response.keywords = expected
              /\ (pc = "done" /\ response.kind = "error")
                    => Happened("raise", "search")

\* the keyword completion request failed and the request still ended with
\* papers and a summary
C12_Witness ==
    /\ C12_KeywordStepFailed
    /\ apiKey /\ Happened("answer_failed", "keywords")
    /\ pc = "done" /\ response.kind = "research"
    /\ response.papers # <<>>
    /\ response.keywords = C12_FailureKeywords
    /\ searchTerm = C12_FailureKeywords

====
